---- MODULE Spec2Model ----
(***************************************************************************)
(* Pol::Clib::message_queue<Message> (pol-core/clib/message_queue.h):      *)
(* a std::list guarded by one std::mutex, with a std::condition_variable   *)
(* on which the blocking pops wait, and a cancel flag.                     *)
(*                                                                         *)
(* Every member function is modelled by the steps a thread takes in it:    *)
(* the acquisition of _mutex (for push after tmp is built outside the      *)
(* lock) and the critical section, which ends by releasing _mutex.  A      *)
(* thread inside _notifier.wait is a member of _notifier and does not own  *)
(* _mutex; notify_one / notify_all / a spurious wake-up take it out of     *)
(* _notifier, after which it has to re-acquire _mutex (Lock) before it     *)
(* re-evaluates the loop condition.                                        *)
(***************************************************************************)
EXTENDS Integers, Sequences, FiniteSets, TLC

\* ---- bounds of the model
NThreads == 3      \* threads sharing the queue
NProducers == 2    \* producer threads of the producer / consumer scenario
MaxMsgs == 3       \* messages ever created (each message is distinct)
MaxBatch == 2      \* longest std::list handed to push( std::list<Message>& )

Threads == 1..NThreads
Producers == 1..NProducers
Consumers == (NProducers + 1)..NThreads
Msgs == 1..MaxMsgs
NoThread == 0
Destroyed == -1

VARIABLES
  _queue,     \* std::list<Message> _queue, head first
  _cancel,    \* bool _cancel
  _mutex,     \* owner of std::mutex _mutex, NoThread when free, Destroyed
              \* once the destructor has destroyed the members
  _notifier,  \* threads suspended inside _notifier.wait( lock )
  pc,         \* pc[t]: the member function thread t is in; outside the
              \* queue "idle", or "caught" when its last call threw Canceled
  tmp,        \* tmp[t]: the list the thread is about to splice (tmp / msg_list)
  ret,        \* what the most recently completed call gave its caller
  nextMsg,    \* next fresh message
  applied,    \* history: messages in the order they were spliced into _queue
  taken,      \* history: messages in the order they were removed from _queue
  cancelAt,   \* history: Len(applied) when cancel() first ran, -1 before
  cancelWoke, \* history: threads a cancel() took out of _notifier.wait and
              \* that have not returned from their pop_wait since
  batches     \* history: the lists handed to push( std::list<Message>& )

vars == <<_queue, _cancel, _mutex, _notifier, pc, tmp, ret, nextMsg,
          applied, taken, cancelAt, cancelWoke, batches>>

\* ---- helpers

\* what a call hands back: st is "ok", "false" (try_pop / empty: no),
\* "true" (empty: yes), "cancelled" (Canceled thrown) or "none" (no call
\* yet); val the message(s) written through the out-pointer; n the size()
\* result.  The thread argument is kept for readability of the call sites.
Ret(t, op, st, val, n) ==
  [op |-> op, st |-> st, val |-> val, n |-> n]

\* std::list::splice( end(), l ): l's elements moved to the tail, in order
Splice(q, l) == q \o l

\* faulty variants of Front and PopFront: back() / pop_back() in their place
Front_back(q) == q[Len(q)]
PopFront_back(q) == SubSeq(q, 1, Len(q) - 1)

\* _queue.front() and _queue.pop_front()
Front(q) == Head(q)
PopFront(q) == Tail(q)

\* faulty variant of NotifyAll: notify_one() in its place
NotifyAll_one(W) == IF W = {} THEN {W} ELSE {W \ {w} : w \in W}

\* the sets of suspended threads notify_one() / notify_all() may leave
\* behind: notify_one wakes one waiter of the implementation's choice (none
\* when nobody waits), notify_all wakes all of them
NotifyOne(W) == IF W = {} THEN {W} ELSE {W \ {w} : w \in W}
NotifyAll(W) == {{}}

\* thread t is in no member function
Outside(t) == pc[t] \in {"idle", "caught"}

BlockingPcs == {"pop_wait", "pop_wait_w", "pop_wait_list", "pop_wait_list_w"}
LockedOps == {"empty", "size", "try_pop", "pop_wait", "pop_wait_list", "cancel"}

\* ---- construction: message_queue()
Init ==
  /\ _queue = <<>>
  /\ _cancel = FALSE
  /\ _mutex = NoThread
  /\ _notifier = {}
  /\ pc = [t \in Threads |-> "idle"]
  /\ tmp = [t \in Threads |-> <<>>]
  /\ ret = Ret(NoThread, "none", "none", <<>>, 0)
  /\ nextMsg = 1
  /\ applied = <<>>
  /\ taken = <<>>
  /\ cancelAt = -1
  /\ cancelWoke = {}
  /\ batches = {}

\* ---- a thread enters a member function

\* push( Message const& ) / push_move( Message&& ): the one-element tmp list
\* is built before the lock is taken
push_tmp(t) ==
  /\ Outside(t)
  /\ nextMsg <= MaxMsgs
  /\ tmp' = [tmp EXCEPT ![t] = <<nextMsg>>]
  /\ nextMsg' = nextMsg + 1
  /\ pc' = [pc EXCEPT ![t] = "push"]
  /\ UNCHANGED <<_queue, _cancel, _mutex, _notifier, ret, applied, taken, cancelAt, cancelWoke, batches>>

\* push( std::list<Message>& msg_list ): the caller's list, and the
\* lock_guard that is the function's first statement
push_list_lock(t) ==
  /\ Outside(t)
  /\ _mutex = NoThread
  /\ \E n \in 2..MaxBatch :
       /\ nextMsg + n - 1 <= MaxMsgs
       /\ tmp' = [tmp EXCEPT ![t] = [i \in 1..n |-> nextMsg + i - 1]]
       /\ nextMsg' = nextMsg + n
       /\ batches' = batches \cup {[i \in 1..n |-> nextMsg + i - 1]}
  /\ pc' = [pc EXCEPT ![t] = "push_list"]
  /\ _mutex' = t
  /\ UNCHANGED <<_queue, _cancel, _notifier, ret, applied, taken, cancelAt, cancelWoke>>

\* empty, size, try_pop, pop_wait, pop_wait( list ), cancel: the call and
\* the lock_guard / unique_lock that is the function's first statement
CallOp(t, op) ==
  /\ Outside(t)
  /\ _mutex = NoThread
  /\ pc' = [pc EXCEPT ![t] = op]
  /\ _mutex' = t
  /\ UNCHANGED <<_queue, _cancel, _notifier, tmp, ret, nextMsg,
                 applied, taken, cancelAt, cancelWoke, batches>>

Call(t) == \E op \in LockedOps : CallOp(t, op)

\* the lock_guard of push / push_move, taken after tmp is built, and the
\* re-acquisition of the lock at the end of _notifier.wait once the thread
\* has been woken
Lock(t) ==
  /\ pc[t] \in {"push", "pop_wait_w", "pop_wait_list_w"}
  /\ t \notin _notifier
  /\ _mutex = NoThread
  /\ _mutex' = t
  /\ UNCHANGED <<_queue, _cancel, _notifier, pc, tmp, ret, nextMsg,
                 applied, taken, cancelAt, cancelWoke, batches>>

\* ---- critical sections (each ends by releasing _mutex)

\* faulty variant of push: the splice without the notify_one()
push_silent(t) ==
  /\ pc[t] = "push"
  /\ _mutex = t
  /\ _queue' = Splice(_queue, tmp[t])
  /\ applied' = applied \o tmp[t]
  /\ tmp' = [tmp EXCEPT ![t] = <<>>]
  /\ _mutex' = NoThread
  /\ pc' = [pc EXCEPT ![t] = "idle"]
  /\ ret' = Ret(t, "push", "ok", <<>>, 0)
  /\ UNCHANGED <<_cancel, _notifier, nextMsg, taken, cancelAt, cancelWoke, batches>>

\* faulty variant of push: a cancelled queue rejects the message
push_closed(t) ==
  /\ pc[t] = "push"
  /\ _mutex = t
  /\ _queue' = IF _cancel THEN _queue ELSE Splice(_queue, tmp[t])
  /\ applied' = IF _cancel THEN applied ELSE applied \o tmp[t]
  /\ tmp' = [tmp EXCEPT ![t] = <<>>]
  /\ _notifier' \in NotifyOne(_notifier)
  /\ _mutex' = NoThread
  /\ pc' = [pc EXCEPT ![t] = "idle"]
  /\ ret' = Ret(t, "push", "ok", <<>>, 0)
  /\ UNCHANGED <<_cancel, nextMsg, taken, cancelAt, cancelWoke, batches>>

push(t) ==
  /\ pc[t] = "push"
  /\ _mutex = t
  /\ _queue' = Splice(_queue, tmp[t])
  /\ applied' = applied \o tmp[t]
  /\ tmp' = [tmp EXCEPT ![t] = <<>>]
  /\ _notifier' \in NotifyOne(_notifier)
  /\ _mutex' = NoThread
  /\ pc' = [pc EXCEPT ![t] = "idle"]
  /\ ret' = Ret(t, "push", "ok", <<>>, 0)
  /\ UNCHANGED <<_cancel, nextMsg, taken, cancelAt, cancelWoke, batches>>

\* faulty variant of push_list: the list is pushed message by message, the lock
\* released in between (the rest goes through push)
push_list_itemwise(t) ==
  /\ pc[t] = "push_list"
  /\ _mutex = t
  /\ _queue' = Splice(_queue, <<Head(tmp[t])>>)
  /\ applied' = Append(applied, Head(tmp[t]))
  /\ tmp' = [tmp EXCEPT ![t] = Tail(tmp[t])]
  /\ _notifier' \in NotifyOne(_notifier)
  /\ _mutex' = NoThread
  /\ pc' = [pc EXCEPT ![t] = IF Tail(tmp[t]) = <<>> THEN "idle" ELSE "push"]
  /\ ret' = Ret(t, "push_list", "ok", <<>>, 0)
  /\ UNCHANGED <<_cancel, nextMsg, taken, cancelAt, cancelWoke, batches>>

push_list(t) ==
  /\ pc[t] = "push_list"
  /\ _mutex = t
  /\ _queue' = Splice(_queue, tmp[t])
  /\ applied' = applied \o tmp[t]
  /\ tmp' = [tmp EXCEPT ![t] = <<>>]
  /\ _notifier' \in NotifyOne(_notifier)
  /\ _mutex' = NoThread
  /\ pc' = [pc EXCEPT ![t] = "idle"]
  /\ ret' = Ret(t, "push_list", "ok", <<>>, 0)
  /\ UNCHANGED <<_cancel, nextMsg, taken, cancelAt, cancelWoke, batches>>

empty(t) ==
  /\ pc[t] = "empty"
  /\ _mutex = t
  /\ ret' = Ret(t, "empty", IF _queue = <<>> THEN "true" ELSE "false", <<>>, 0)
  /\ _mutex' = NoThread
  /\ pc' = [pc EXCEPT ![t] = "idle"]
  /\ UNCHANGED <<_queue, _cancel, _notifier, tmp, nextMsg, applied, taken, cancelAt, cancelWoke, batches>>

size(t) ==
  /\ pc[t] = "size"
  /\ _mutex = t
  /\ ret' = Ret(t, "size", "ok", <<>>, Len(_queue))
  /\ _mutex' = NoThread
  /\ pc' = [pc EXCEPT ![t] = "idle"]
  /\ UNCHANGED <<_queue, _cancel, _notifier, tmp, nextMsg, applied, taken, cancelAt, cancelWoke, batches>>

\* faulty variant of try_pop: the head is copied out and stays in the buffer
try_pop_peek(t) ==
  /\ pc[t] = "try_pop"
  /\ _mutex = t
  /\ IF _queue = <<>>
       THEN /\ ret' = Ret(t, "try_pop", "false", <<>>, 0)
            /\ UNCHANGED <<_queue, taken>>
       ELSE /\ ret' = Ret(t, "try_pop", "ok", <<Front(_queue)>>, 0)
            /\ taken' = Append(taken, Front(_queue))
            /\ UNCHANGED _queue
  /\ _mutex' = NoThread
  /\ pc' = [pc EXCEPT ![t] = "idle"]
  /\ UNCHANGED <<_cancel, _notifier, tmp, nextMsg, applied, cancelAt, cancelWoke, batches>>

\* faulty variant of try_pop: a cancelled queue with an empty buffer throws
try_pop_throws(t) ==
  /\ pc[t] = "try_pop"
  /\ _mutex = t
  /\ IF _queue = <<>>
       THEN /\ ret' = Ret(t, "try_pop", IF _cancel THEN "cancelled" ELSE "false", <<>>, 0)
            /\ pc' = [pc EXCEPT ![t] = IF _cancel THEN "caught" ELSE "idle"]
            /\ UNCHANGED <<_queue, taken>>
       ELSE /\ ret' = Ret(t, "try_pop", "ok", <<Front(_queue)>>, 0)
            /\ taken' = Append(taken, Front(_queue))
            /\ _queue' = PopFront(_queue)
            /\ pc' = [pc EXCEPT ![t] = "idle"]
  /\ _mutex' = NoThread
  /\ UNCHANGED <<_cancel, _notifier, tmp, nextMsg, applied, cancelAt, cancelWoke, batches>>

try_pop(t) ==
  /\ pc[t] = "try_pop"
  /\ _mutex = t
  /\ IF _queue = <<>>
       THEN /\ ret' = Ret(t, "try_pop", "false", <<>>, 0)
            /\ UNCHANGED <<_queue, taken>>
       ELSE /\ ret' = Ret(t, "try_pop", "ok", <<Front(_queue)>>, 0)
            /\ taken' = Append(taken, Front(_queue))
            /\ _queue' = PopFront(_queue)
  /\ _mutex' = NoThread
  /\ pc' = [pc EXCEPT ![t] = "idle"]
  /\ UNCHANGED <<_cancel, _notifier, tmp, nextMsg, applied, cancelAt, cancelWoke, batches>>

\* faulty variant of pop_wait: the loop waits on _queue.empty() alone
pop_wait_ignores_cancel(t) ==
  /\ pc[t] \in {"pop_wait", "pop_wait_w"}
  /\ _mutex = t
  /\ _mutex' = NoThread
  /\ IF _queue = <<>>
       THEN /\ _notifier' = _notifier \cup {t}
            /\ pc' = [pc EXCEPT ![t] = "pop_wait_w"]
            /\ UNCHANGED <<_queue, ret, taken>>
       ELSE IF _cancel
         THEN /\ ret' = Ret(t, "pop_wait", "cancelled", <<>>, 0)
              /\ pc' = [pc EXCEPT ![t] = "caught"]
              /\ UNCHANGED <<_queue, _notifier, taken>>
         ELSE /\ ret' = Ret(t, "pop_wait", "ok", <<Front(_queue)>>, 0)
              /\ taken' = Append(taken, Front(_queue))
              /\ _queue' = PopFront(_queue)
              /\ pc' = [pc EXCEPT ![t] = "idle"]
              /\ UNCHANGED _notifier
  /\ cancelWoke' = IF _queue = <<>> THEN cancelWoke ELSE cancelWoke \ {t}
  /\ UNCHANGED <<_cancel, tmp, nextMsg, applied, cancelAt, batches>>

\* faulty variant of pop_wait: "if" in place of "while", a woken thread does
\* not test the condition again
pop_wait_if(t) ==
  /\ pc[t] \in {"pop_wait", "pop_wait_w"}
  /\ _mutex = t
  /\ _mutex' = NoThread
  /\ IF _queue = <<>> /\ ~_cancel /\ pc[t] = "pop_wait"
       THEN /\ _notifier' = _notifier \cup {t}
            /\ pc' = [pc EXCEPT ![t] = "pop_wait_w"]
            /\ UNCHANGED <<_queue, ret, taken>>
       ELSE IF _cancel
         THEN /\ ret' = Ret(t, "pop_wait", "cancelled", <<>>, 0)
              /\ pc' = [pc EXCEPT ![t] = "caught"]
              /\ UNCHANGED <<_queue, _notifier, taken>>
         ELSE /\ ret' = Ret(t, "pop_wait", "ok",
                          IF _queue = <<>> THEN <<>> ELSE <<Front(_queue)>>, 0)
              /\ taken' = IF _queue = <<>> THEN taken ELSE Append(taken, Front(_queue))
              /\ _queue' = IF _queue = <<>> THEN _queue ELSE PopFront(_queue)
              /\ pc' = [pc EXCEPT ![t] = "idle"]
              /\ UNCHANGED _notifier
  /\ cancelWoke' = IF _queue = <<>> /\ ~_cancel /\ pc[t] = "pop_wait"
                     THEN cancelWoke ELSE cancelWoke \ {t}
  /\ UNCHANGED <<_cancel, tmp, nextMsg, applied, cancelAt, batches>>

\* faulty variant of pop_wait: the thread suspends with the lock still held
pop_wait_keeps_lock(t) ==
  /\ pc[t] \in {"pop_wait", "pop_wait_w"}
  /\ _mutex = t
  /\ IF _queue = <<>> /\ ~_cancel
       THEN /\ _notifier' = _notifier \cup {t}
            /\ pc' = [pc EXCEPT ![t] = "pop_wait_w"]
            /\ UNCHANGED <<_queue, ret, taken, _mutex>>
       ELSE IF _cancel
         THEN /\ ret' = Ret(t, "pop_wait", "cancelled", <<>>, 0)
              /\ pc' = [pc EXCEPT ![t] = "caught"]
              /\ _mutex' = NoThread
              /\ UNCHANGED <<_queue, _notifier, taken>>
         ELSE /\ ret' = Ret(t, "pop_wait", "ok", <<Front(_queue)>>, 0)
              /\ taken' = Append(taken, Front(_queue))
              /\ _queue' = PopFront(_queue)
              /\ pc' = [pc EXCEPT ![t] = "idle"]
              /\ _mutex' = NoThread
              /\ UNCHANGED _notifier
  /\ cancelWoke' = IF _queue = <<>> /\ ~_cancel THEN cancelWoke ELSE cancelWoke \ {t}
  /\ UNCHANGED <<_cancel, tmp, nextMsg, applied, cancelAt, batches>>

\* pop_wait( Message* ): one evaluation of the while condition with the lock
\* held, then either _notifier.wait (the lock is released while suspended),
\* the throw, or the removal of the front element
pop_wait(t) ==
  /\ pc[t] \in {"pop_wait", "pop_wait_w"}
  /\ _mutex = t
  /\ _mutex' = NoThread
  /\ IF _queue = <<>> /\ ~_cancel
       THEN /\ _notifier' = _notifier \cup {t}
            /\ pc' = [pc EXCEPT ![t] = "pop_wait_w"]
            /\ UNCHANGED <<_queue, ret, taken>>
       ELSE IF _cancel
         THEN /\ ret' = Ret(t, "pop_wait", "cancelled", <<>>, 0)
              /\ pc' = [pc EXCEPT ![t] = "caught"]
              /\ UNCHANGED <<_queue, _notifier, taken>>
         ELSE /\ ret' = Ret(t, "pop_wait", "ok", <<Front(_queue)>>, 0)
              /\ taken' = Append(taken, Front(_queue))
              /\ _queue' = PopFront(_queue)
              /\ pc' = [pc EXCEPT ![t] = "idle"]
              /\ UNCHANGED _notifier
  /\ cancelWoke' = IF _queue = <<>> /\ ~_cancel THEN cancelWoke ELSE cancelWoke \ {t}
  /\ UNCHANGED <<_cancel, tmp, nextMsg, applied, cancelAt, batches>>

\* faulty variant of pop_wait_list: the splice comes before the throw
pop_wait_list_flush(t) ==
  /\ pc[t] \in {"pop_wait_list", "pop_wait_list_w"}
  /\ _mutex = t
  /\ _mutex' = NoThread
  /\ IF _queue = <<>> /\ ~_cancel
       THEN /\ _notifier' = _notifier \cup {t}
            /\ pc' = [pc EXCEPT ![t] = "pop_wait_list_w"]
            /\ UNCHANGED <<_queue, ret, taken>>
       ELSE /\ ret' = Ret(t, "pop_wait_list", IF _cancel THEN "cancelled" ELSE "ok",
                          Splice(<<>>, _queue), 0)
            /\ taken' = Splice(taken, _queue)
            /\ _queue' = <<>>
            /\ pc' = [pc EXCEPT ![t] = IF _cancel THEN "caught" ELSE "idle"]
            /\ UNCHANGED _notifier
  /\ cancelWoke' = IF _queue = <<>> /\ ~_cancel THEN cancelWoke ELSE cancelWoke \ {t}
  /\ UNCHANGED <<_cancel, tmp, nextMsg, applied, cancelAt, batches>>

\* faulty variant of pop_wait_list: only the front message is moved
pop_wait_list_front(t) ==
  /\ pc[t] \in {"pop_wait_list", "pop_wait_list_w"}
  /\ _mutex = t
  /\ _mutex' = NoThread
  /\ IF _queue = <<>> /\ ~_cancel
       THEN /\ _notifier' = _notifier \cup {t}
            /\ pc' = [pc EXCEPT ![t] = "pop_wait_list_w"]
            /\ UNCHANGED <<_queue, ret, taken>>
       ELSE IF _cancel
         THEN /\ ret' = Ret(t, "pop_wait_list", "cancelled", <<>>, 0)
              /\ pc' = [pc EXCEPT ![t] = "caught"]
              /\ UNCHANGED <<_queue, _notifier, taken>>
         ELSE /\ ret' = Ret(t, "pop_wait_list", "ok", <<Front(_queue)>>, 0)
              /\ taken' = Append(taken, Front(_queue))
              /\ _queue' = PopFront(_queue)
              /\ pc' = [pc EXCEPT ![t] = "idle"]
              /\ UNCHANGED _notifier
  /\ cancelWoke' = IF _queue = <<>> /\ ~_cancel THEN cancelWoke ELSE cancelWoke \ {t}
  /\ UNCHANGED <<_cancel, tmp, nextMsg, applied, cancelAt, batches>>

\* pop_wait( std::list<Message>* ): the same loop, then the whole _queue is
\* spliced into the caller's list
pop_wait_list(t) ==
  /\ pc[t] \in {"pop_wait_list", "pop_wait_list_w"}
  /\ _mutex = t
  /\ _mutex' = NoThread
  /\ IF _queue = <<>> /\ ~_cancel
       THEN /\ _notifier' = _notifier \cup {t}
            /\ pc' = [pc EXCEPT ![t] = "pop_wait_list_w"]
            /\ UNCHANGED <<_queue, ret, taken>>
       ELSE IF _cancel
         THEN /\ ret' = Ret(t, "pop_wait_list", "cancelled", <<>>, 0)
              /\ pc' = [pc EXCEPT ![t] = "caught"]
              /\ UNCHANGED <<_queue, _notifier, taken>>
         ELSE /\ ret' = Ret(t, "pop_wait_list", "ok", Splice(<<>>, _queue), 0)
              /\ taken' = Splice(taken, _queue)
              /\ _queue' = <<>>
              /\ pc' = [pc EXCEPT ![t] = "idle"]
              /\ UNCHANGED _notifier
  /\ cancelWoke' = IF _queue = <<>> /\ ~_cancel THEN cancelWoke ELSE cancelWoke \ {t}
  /\ UNCHANGED <<_cancel, tmp, nextMsg, applied, cancelAt, batches>>

\* faulty variants of cancel: the flag is toggled; the pending messages are dropped
cancel_toggle(t) ==
  /\ pc[t] = "cancel"
  /\ _mutex = t
  /\ _cancel' = ~_cancel
  /\ _notifier' \in NotifyAll(_notifier)
  /\ cancelAt' = IF cancelAt < 0 THEN Len(applied) ELSE cancelAt
  /\ cancelWoke' = cancelWoke \cup (_notifier \ _notifier')
  /\ _mutex' = NoThread
  /\ pc' = [pc EXCEPT ![t] = "idle"]
  /\ ret' = Ret(t, "cancel", "ok", <<>>, 0)
  /\ UNCHANGED <<_queue, tmp, nextMsg, applied, taken, batches>>

cancel_clear(t) ==
  /\ pc[t] = "cancel"
  /\ _mutex = t
  /\ _cancel' = TRUE
  /\ _queue' = <<>>
  /\ _notifier' \in NotifyAll(_notifier)
  /\ cancelAt' = IF cancelAt < 0 THEN Len(applied) ELSE cancelAt
  /\ cancelWoke' = cancelWoke \cup (_notifier \ _notifier')
  /\ _mutex' = NoThread
  /\ pc' = [pc EXCEPT ![t] = "idle"]
  /\ ret' = Ret(t, "cancel", "ok", <<>>, 0)
  /\ UNCHANGED <<tmp, nextMsg, applied, taken, batches>>

cancel(t) ==
  /\ pc[t] = "cancel"
  /\ _mutex = t
  /\ _cancel' = TRUE
  /\ _notifier' \in NotifyAll(_notifier)
  /\ cancelAt' = IF cancelAt < 0 THEN Len(applied) ELSE cancelAt
  /\ cancelWoke' = cancelWoke \cup (_notifier \ _notifier')
  /\ _mutex' = NoThread
  /\ pc' = [pc EXCEPT ![t] = "idle"]
  /\ ret' = Ret(t, "cancel", "ok", <<>>, 0)
  /\ UNCHANGED <<_queue, tmp, nextMsg, applied, taken, batches>>

\* std::condition_variable::wait may return without a notification
SpuriousWake(t) ==
  /\ t \in _notifier
  /\ _notifier' = _notifier \ {t}
  /\ UNCHANGED <<_queue, _cancel, _mutex, pc, tmp, ret, nextMsg,
                 applied, taken, cancelAt, cancelWoke, batches>>

\* faulty variant of pop_remaining: a cancelled queue throws Canceled
pop_remaining_checked(t) ==
  /\ Outside(t)
  /\ \E o \in (IF _cancel THEN {"untouched"}
                ELSE IF _mutex = NoThread THEN {"moved"}
                ELSE {"moved", "untouched", "lost"}) :
       /\ _queue' = IF o = "untouched" THEN _queue ELSE <<>>
       /\ ret' = Ret(t, "pop_remaining", IF _cancel THEN "cancelled" ELSE "ok",
                     IF o = "moved" THEN Splice(<<>>, _queue) ELSE <<>>, 0)
       /\ taken' = IF o = "moved" THEN Splice(taken, _queue) ELSE taken
  /\ pc' = [pc EXCEPT ![t] = IF _cancel THEN "caught" ELSE "idle"]
  /\ UNCHANGED <<_cancel, _mutex, _notifier, tmp, nextMsg, applied, cancelAt, cancelWoke, batches>>

\* pop_remaining( std::list<Message>* ): splices _queue into the caller's
\* list without taking _mutex.  With no thread inside a critical section it
\* moves the whole queue.  While another thread owns _mutex the two threads
\* access the std::list concurrently, a data race: the splice may take
\* effect as a whole, not at all, or leave the nodes linked into neither
\* list.
pop_remaining(t) ==
  /\ Outside(t)
  /\ \E o \in (IF _mutex = NoThread THEN {"moved"}
                ELSE {"moved", "untouched", "lost"}) :
       /\ _queue' = IF o = "untouched" THEN _queue ELSE <<>>
       /\ ret' = Ret(t, "pop_remaining", "ok",
                     IF o = "moved" THEN Splice(<<>>, _queue) ELSE <<>>, 0)
       /\ taken' = IF o = "moved" THEN Splice(taken, _queue) ELSE taken
  /\ pc' = [pc EXCEPT ![t] = "idle"]
  /\ UNCHANGED <<_cancel, _mutex, _notifier, tmp, nextMsg, applied, cancelAt, cancelWoke, batches>>

\* ---- destruction: ~message_queue() { cancel(); }, then the members are
\* destroyed.  The destructor is entered once, through the lock_guard of
\* its cancel() call.
CallDtor(t) ==
  /\ \A u \in Threads : pc[u] \notin {"dtor", "dtor_members"}
  /\ CallOp(t, "dtor")

\* the critical section of the destructor's cancel()
dtor_cancel(t) ==
  /\ pc[t] = "dtor"
  /\ _mutex = t
  /\ _cancel' = TRUE
  /\ _notifier' \in NotifyAll(_notifier)
  /\ cancelAt' = IF cancelAt < 0 THEN Len(applied) ELSE cancelAt
  /\ cancelWoke' = cancelWoke \cup (_notifier \ _notifier')
  /\ _mutex' = NoThread
  /\ pc' = [pc EXCEPT ![t] = "dtor_members"]
  /\ ret' = Ret(t, "cancel", "ok", <<>>, 0)
  /\ UNCHANGED <<_queue, tmp, nextMsg, applied, taken, batches>>

\* the end of the destructor: _cancel, _notifier, _mutex and _queue are
\* destroyed, whether or not a thread is still inside a member function
dtor_members(t) ==
  /\ pc[t] = "dtor_members"
  /\ _mutex' = Destroyed
  /\ _queue' = <<>>
  /\ pc' = [pc EXCEPT ![t] = "idle"]
  /\ UNCHANGED <<_cancel, _notifier, tmp, ret, nextMsg, applied, taken,
                 cancelAt, cancelWoke, batches>>

\* a thread that is still inside a member function after the members were
\* destroyed locks a destroyed mutex and reads destroyed members, which is
\* undefined: it may never come back (no step), or it may find the storage
\* as the destructor left it, a blocking pop seeing _cancel set and
\* throwing Canceled, a push returning
destroyed_use(t) ==
  /\ _mutex = Destroyed
  /\ ~Outside(t)
  /\ t \notin _notifier
  /\ pc' = [pc EXCEPT ![t] = IF pc[t] \in BlockingPcs THEN "caught" ELSE "idle"]
  /\ ret' = IF pc[t] \in BlockingPcs
              THEN Ret(t, "pop_wait", "cancelled", <<>>, 0)
              ELSE Ret(t, "push", "ok", <<>>, 0)
  /\ tmp' = [tmp EXCEPT ![t] = <<>>]
  /\ cancelWoke' = cancelWoke \ {t}
  /\ UNCHANGED <<_queue, _cancel, _mutex, _notifier, nextMsg, applied, taken,
                 cancelAt, batches>>

\* the steps of thread t inside a critical section
Section(t) ==
  \/ push(t)
  \/ push_list(t)
  \/ empty(t)
  \/ size(t)
  \/ try_pop(t)
  \/ pop_wait(t)
  \/ pop_wait_list(t)
  \/ cancel(t)

\* ---- the queue used by any thread through its locked interface
Next ==
  \/ \E t \in Threads : push_tmp(t)
  \/ \E t \in Threads : push_list_lock(t)
  \/ \E t \in Threads : Call(t)
  \/ \E t \in Threads : Lock(t)
  \/ \E t \in Threads : push(t)
  \/ \E t \in Threads : push_list(t)
  \/ \E t \in Threads : empty(t)
  \/ \E t \in Threads : size(t)
  \/ \E t \in Threads : try_pop(t)
  \/ \E t \in Threads : pop_wait(t)
  \/ \E t \in Threads : pop_wait_list(t)
  \/ \E t \in Threads : cancel(t)
  \/ \E t \in Threads : SpuriousWake(t)

Spec == Init /\ [][Next]_vars

\* ---- every operation that touches _queue or _cancel, with the unsafe
\* pop_remaining callable at any time (empty and size only read)
CallUnsafe(t) ==
  \E op \in {"try_pop", "pop_wait", "pop_wait_list", "cancel"} : CallOp(t, op)

NextUnsafe ==
  \/ \E t \in Threads : push_tmp(t)
  \/ \E t \in Threads : push_list_lock(t)
  \/ \E t \in Threads : CallUnsafe(t)
  \/ \E t \in Threads : Lock(t)
  \/ \E t \in Threads : push(t)
  \/ \E t \in Threads : push_list(t)
  \/ \E t \in Threads : try_pop(t)
  \/ \E t \in Threads : pop_wait(t)
  \/ \E t \in Threads : pop_wait_list(t)
  \/ \E t \in Threads : cancel(t)
  \/ \E t \in Threads : SpuriousWake(t)
  \/ \E t \in Threads : pop_remaining(t)

SpecUnsafe == Init /\ [][NextUnsafe]_vars

\* ---- producers, blocking consumers and cancel(), scheduled fairly
CallWait(t) == \E op \in {"pop_wait", "pop_wait_list", "cancel"} : CallOp(t, op)

NextWait ==
  \/ \E t \in Threads : push_tmp(t)
  \/ \E t \in Threads : CallWait(t)
  \/ \E t \in Threads : Lock(t)
  \/ \E t \in Threads : push(t)
  \/ \E t \in Threads : pop_wait(t)
  \/ \E t \in Threads : pop_wait_list(t)
  \/ \E t \in Threads : cancel(t)
  \/ \E t \in Threads : SpuriousWake(t)

\* A thread inside a critical section keeps running (the scheduler is
\* preemptive but starves no thread), and a thread contending for _mutex
\* gets it if it is free again and again; nothing obliges a thread to call
\* the queue, and nothing obliges a spurious wake-up to happen.
FairSpec ==
  /\ Init /\ [][NextWait]_vars
  /\ \A t \in Threads : WF_vars(Section(t))
  /\ \A t \in Threads : SF_vars(Lock(t))

\* ---- the producer / consumer scenario: every producer pushes single
\* messages until MaxMsgs distinct messages exist; once all of them are in
\* the queue a producer calls cancel(); every consumer loops over try_pop /
\* pop_wait until one of its calls throws Canceled.
ProducerCancel(t) ==
  /\ Len(applied) = MaxMsgs
  /\ ~_cancel
  /\ CallOp(t, "cancel")

ConsumerCall(t) ==
  /\ pc[t] # "caught"
  /\ \E op \in {"try_pop", "pop_wait"} : CallOp(t, op)

NextPC ==
  \/ \E t \in Producers : push_tmp(t)
  \/ \E t \in Producers : ProducerCancel(t)
  \/ \E t \in Consumers : ConsumerCall(t)
  \/ \E t \in Threads : Lock(t)
  \/ \E t \in Threads : push(t)
  \/ \E t \in Threads : try_pop(t)
  \/ \E t \in Threads : pop_wait(t)
  \/ \E t \in Threads : cancel(t)
  \/ \E t \in Threads : SpuriousWake(t)

SpecPC == Init /\ [][NextPC]_vars

\* ---- producers, blocking consumers and the destruction of the queue,
\* scheduled fairly.  No fairness is assumed for destroyed_use: nothing
\* obliges a thread that touches a destroyed mutex to come back.
CallBlocking(t) == \E op \in {"pop_wait", "pop_wait_list"} : CallOp(t, op)

NextDtor ==
  \/ \E t \in Threads : push_tmp(t)
  \/ \E t \in Threads : CallBlocking(t)
  \/ \E t \in Threads : CallDtor(t)
  \/ \E t \in Threads : Lock(t)
  \/ \E t \in Threads : push(t)
  \/ \E t \in Threads : pop_wait(t)
  \/ \E t \in Threads : pop_wait_list(t)
  \/ \E t \in Threads : dtor_cancel(t)
  \/ \E t \in Threads : dtor_members(t)
  \/ \E t \in Threads : destroyed_use(t)
  \/ \E t \in Threads : SpuriousWake(t)

FairDtor ==
  /\ Init /\ [][NextDtor]_vars
  /\ \A t \in Threads : WF_vars(Section(t) \/ dtor_cancel(t) \/ dtor_members(t))
  /\ \A t \in Threads : SF_vars(Lock(t))

\* ---- the whole locked interface, scheduled fairly: the producers call
\* the six functions that never wait, every thread but the first calls the
\* blocking pops
NonBlockingOps == {"push", "push_list", "try_pop", "empty", "size", "cancel"}

CallNonBlocking(t) == \E op \in {"try_pop", "empty", "size", "cancel"} : CallOp(t, op)

NextAll ==
  \/ \E t \in Producers : push_tmp(t)
  \/ \E t \in Producers : push_list_lock(t)
  \/ \E t \in Producers : CallNonBlocking(t)
  \/ \E t \in Threads \ {1} : CallBlocking(t)
  \/ \E t \in Threads : Lock(t)
  \/ \E t \in Threads : push(t)
  \/ \E t \in Threads : push_list(t)
  \/ \E t \in Threads : empty(t)
  \/ \E t \in Threads : size(t)
  \/ \E t \in Threads : try_pop(t)
  \/ \E t \in Threads : pop_wait(t)
  \/ \E t \in Threads : pop_wait_list(t)
  \/ \E t \in Threads : cancel(t)
  \/ \E t \in Threads : SpuriousWake(t)

FairAll ==
  /\ Init /\ [][NextAll]_vars
  /\ \A t \in Threads : WF_vars(Section(t))
  /\ \A t \in Threads : SF_vars(Lock(t))

\* ---- vocabulary of the properties
Range(q) == {q[i] : i \in 1..Len(q)}

\* position of message x in sequence q, 0 when absent
Pos(q, x) == IF x \in Range(q) THEN CHOOSE i \in 1..Len(q) : q[i] = x ELSE 0

\* b occurs in q as one contiguous block, in b's order
Contiguous(b, q) ==
  \E i \in 0..(Len(q) - Len(b)) : \A j \in 1..Len(b) : q[i + j] = b[j]

\* number of occurrences of x in sequence q
Count(q, x) == Cardinality({i \in 1..Len(q) : q[i] = x})

\* the steps in which thread t returns from a member function
Throws(t) == pc[t] \in BlockingPcs /\ pc'[t] = "caught"
PopsOne(t) ==
  /\ pc[t] \in {"try_pop", "pop_wait", "pop_wait_w"}
  /\ pc'[t] = "idle"
  /\ ret'.st = "ok"
Pushes(t) == pc[t] \in {"push", "push_list"} /\ _mutex = t /\ pc'[t] = "idle"
Cancels(t) == pc[t] = "cancel" /\ pc'[t] = "idle"

\* a step taken by thread t itself: it moves on inside or between member
\* functions, or it takes or releases _mutex
OwnStep(t) == pc'[t] # pc[t] \/ ((_mutex = t) # (_mutex' = t))

\* C1: a blocking pop (pop_wait, pop_wait( list )) throws Canceled only
\* when the buffer is empty at that moment; a cancelled queue that still
\* holds messages hands them out first.
C1_CancelledOnlyWhenEmpty ==
  [][\A t \in Threads : Throws(t) => _queue = <<>>]_vars

\* C2: every thread that cancel() took out of a pop_wait suspension returns
\* from that pop_wait with Canceled unless a push took effect after the
\* cancel, and cancel() leaves no thread suspended.
C2_CancelWakesAll ==
  /\ [](_cancel => _notifier = {})
  /\ \A t \in Threads :
       (t \in cancelWoke /\ pc[t] = "pop_wait_w")
         ~> ((pc[t] = "caught" /\ t \notin cancelWoke) \/ Len(applied) > cancelAt)

\* two threads were suspended in pop_wait on an empty queue when cancel()
\* ran, and no push has taken effect since
C2_Witness ==
  /\ Cardinality({t \in cancelWoke : pc[t] = "pop_wait_w"}) >= 2
  /\ _cancel
  /\ _queue = <<>>
  /\ Len(applied) = cancelAt

\* C3: in the producer / consumer scenario, once every consumer has left
\* its loop on Canceled the consumers have retrieved every one of the
\* MaxMsgs messages exactly once.
C3_NoLossNoDuplication ==
  (\A c \in Consumers : pc[c] = "caught")
    => (Len(taken) = MaxMsgs /\ Range(taken) = Msgs)

\* C4: the k-th single-element pop (try_pop or pop_wait) returns the k-th
\* message that was pushed: pops return p1, p2, ..., pn in push order.
C4_FifoOrder ==
  [][\A t \in Threads :
       PopsOne(t) => ret'.val = <<applied[Len(taken) + 1]>>]_vars

\* all messages were pushed and then popped one by one, the last pop
\* returning the message pushed last
C4_Witness ==
  /\ ret.op \in {"try_pop", "pop_wait"}
  /\ ret.st = "ok"
  /\ Len(applied) = MaxMsgs
  /\ taken = applied
  /\ ret.val = <<applied[MaxMsgs]>>

\* C5: no pop returns y while a message x whose push took effect before
\* y's is still in the buffer.
C5_NoOvertaking ==
  [][\A t \in Threads :
       PopsOne(t) =>
         \A i \in 1..Len(_queue') :
           Pos(applied, _queue'[i]) > Pos(applied, ret'.val[1])]_vars

\* a pop returned a message while a message created earlier, but pushed
\* later by another thread, is still in the buffer
C5_Witness ==
  /\ ret.op \in {"try_pop", "pop_wait"}
  /\ ret.st = "ok"
  /\ _queue # <<>>
  /\ ret.val[1] > Head(_queue)
  /\ \E t \in Threads : pc[t] \in {"push", "push_list"}

\* C6: a list handed to push( list ) is in the buffer entirely or not at
\* all when it is spliced, as one contiguous block in its own order, and no
\* other message ever stands between two of its messages.
C6_BatchAtomic ==
  \A b \in batches :
    /\ (Range(b) \cap Range(applied) = {}) \/ Contiguous(b, applied)
    /\ \E k \in 0..Len(b) : Contiguous(SubSeq(b, k + 1, Len(b)), _queue)
                             /\ \A j \in 1..k : b[j] \notin Range(_queue)

\* a batch and a message x of a concurrent push( x ) are in the buffer
\* together: x was built before the batch and spliced after it
C6_Witness ==
  \E b \in batches :
    /\ Len(_queue) = Len(b) + 1
    /\ SubSeq(_queue, 1, Len(b)) = b
    /\ _queue[Len(b) + 1] < b[1]

\* C7: on a cancelled queue push and push( list ) still append their
\* message(s), and try_pop still returns the head of a non-empty buffer.
C7_PushAfterCancel ==
  [][\A t \in Threads :
       _cancel =>
         /\ Pushes(t) => _queue' = _queue \o tmp[t]
         /\ (pc[t] = "try_pop" /\ pc'[t] = "idle" /\ _queue # <<>>)
              => (ret' = Ret(t, "try_pop", "ok", <<Head(_queue)>>, 0)
                  /\ _queue' = Tail(_queue))]_vars

\* try_pop returned a message that was pushed after cancel()
C7_Witness ==
  /\ cancelAt >= 0
  /\ ret.op = "try_pop"
  /\ ret.st = "ok"
  /\ Pos(applied, ret.val[1]) > cancelAt

\* C8: _cancel is false at construction and, once true, no operation
\* (pop_remaining included) sets it back to false.
C8_CancelMonotonic ==
  /\ ~_cancel
  /\ [][_cancel => _cancel']_vars

\* after cancel() a message was pushed and pop_remaining drained it
C8_Witness ==
  /\ _cancel
  /\ ret.op = "pop_remaining"
  /\ ret.val # <<>>
  /\ Pos(applied, ret.val[1]) > cancelAt

\* C9: cancel() on an already cancelled queue changes neither the buffer,
\* nor the flag, nor the set of suspended threads.
C9_CancelIdempotent ==
  [][\A t \in Threads :
       (Cancels(t) /\ _cancel)
         => (_queue' = _queue /\ _cancel' = _cancel /\ _notifier' = _notifier)]_vars

\* a second cancel() is inside its critical section on a cancelled,
\* non-empty queue
C9_Witness ==
  /\ _cancel
  /\ _queue # <<>>
  /\ \E t \in Threads : pc[t] = "cancel" /\ _mutex = t

\* C10: once _cancel is set no thread suspends in _notifier.wait any more,
\* and every thread inside a blocking pop returns.
C10_NoWaitAfterCancel ==
  /\ [][_cancel => _notifier' \subseteq _notifier]_vars
  /\ \A t \in Threads : (_cancel /\ pc[t] \in BlockingPcs) ~> Outside(t)

\* a blocking pop called after cancel() evaluates its loop condition
C10_Witness ==
  /\ _cancel
  /\ \E t \in Threads : pc[t] \in {"pop_wait", "pop_wait_list"} /\ _mutex = t

\* C11: the destructor performs cancel() first, and every thread that was
\* suspended in a blocking pop when the destructor ran is woken and
\* returns from that pop with Canceled.
C11_DestructorCancels ==
  /\ [][\A d \in Threads :
          (pc[d] = "dtor" /\ pc'[d] = "dtor_members")
            => (_cancel' /\ _notifier' = {})]_vars
  /\ \A t \in Threads :
       (t \in cancelWoke /\ pc[t] \in {"pop_wait_w", "pop_wait_list_w"})
         ~> (pc[t] = "caught")

\* C12: try_pop never suspends and never throws Canceled, cancelled or not:
\* on an empty buffer it returns false and changes nothing, otherwise it
\* removes the head of the buffer and returns exactly that message.
C12_TryPopNeverBlocks ==
  /\ [](\A t \in Threads : pc[t] = "try_pop" => (_mutex = t /\ t \notin _notifier))
  /\ [][\A t \in Threads :
          (pc[t] = "try_pop" /\ pc'[t] # "try_pop") =>
            /\ pc'[t] = "idle"
            /\ _cancel' = _cancel
            /\ _notifier' = _notifier
            /\ IF _queue = <<>>
                 THEN ret'.st = "false" /\ ret'.val = <<>> /\ _queue' = _queue
                 ELSE ret'.st = "ok" /\ ret'.val = <<Head(_queue)>>
                      /\ _queue' = Tail(_queue)]_vars

\* on a cancelled queue one try_pop has taken the only message and the
\* next try_pop has returned false
C12_Witness ==
  /\ _cancel
  /\ ret.op = "try_pop"
  /\ ret.st = "false"
  /\ _queue = <<>>
  /\ Len(taken) > cancelAt
  /\ cancelAt >= 0

\* C13: a pop_wait( list ) that returns moves the whole buffer, in buffer
\* order, to its caller and leaves _queue empty; while it owns _mutex no
\* other thread's step changes the buffer.
C13_BatchPopTakesAll ==
  /\ [][\A t \in Threads :
          (pc[t] \in {"pop_wait_list", "pop_wait_list_w"} /\ pc'[t] = "idle") =>
            /\ _queue # <<>>
            /\ ret' = Ret(t, "pop_wait_list", "ok", _queue, 0)
            /\ taken' = taken \o _queue
            /\ _queue' = <<>>]_vars
  /\ [][\A t \in Threads :
          (pc[t] \in {"pop_wait_list", "pop_wait_list_w"} /\ _mutex = t
             /\ _queue' # _queue) => pc'[t] = "idle"]_vars

\* pop_wait( list ) returned two or more messages at once
C13_Witness ==
  /\ ret.op = "pop_wait_list"
  /\ ret.st = "ok"
  /\ Len(ret.val) >= 2
  /\ _queue = <<>>
  /\ SubSeq(taken, Len(taken) - Len(ret.val) + 1, Len(taken)) = ret.val

\* C14: only pop_wait and pop_wait( list ) suspend: a thread inside
\* _notifier.wait is in one of the two and does not own _mutex, and under
\* fair scheduling every call of push, push( list ), try_pop, empty, size
\* and cancel returns, however many consumers are suspended.
C14_OnlyPopsBlock ==
  /\ [](\A t \in _notifier :
          _mutex # t /\ pc[t] \in {"pop_wait_w", "pop_wait_list_w"})
  /\ \A t \in Threads : (pc[t] \in NonBlockingOps) ~> Outside(t)

\* a push is waiting for _mutex while two consumers are suspended
C14_Witness ==
  /\ Cardinality(_notifier) >= 2
  /\ \E t \in Threads : pc[t] = "push" /\ _mutex # t

\* C15: when no other thread is inside a member function, pop_remaining
\* hands its caller the whole buffer in buffer order, leaves _queue empty
\* and _cancel as it was, and does not throw Canceled, cancelled or not.
C15_DrainRemaining ==
  [][\A t \in Threads :
       (pop_remaining(t) /\ \A u \in Threads : Outside(u)) =>
         /\ ret' = Ret(t, "pop_remaining", "ok", _queue, 0)
         /\ taken' = taken \o _queue
         /\ _queue' = <<>>
         /\ _cancel' = _cancel
         /\ pc'[t] = "idle"]_vars

\* on a cancelled queue, with every thread outside, pop_remaining has
\* returned two messages in the order of their pushes
C15_Witness ==
  /\ _cancel
  /\ \A u \in Threads : Outside(u)
  /\ ret.op = "pop_remaining"
  /\ ret.st = "ok"
  /\ Len(ret.val) >= 2
  /\ _queue = <<>>
  /\ \A i \in 1..(Len(ret.val) - 1) :
       Pos(applied, ret.val[i]) < Pos(applied, ret.val[i + 1])

\* C16: pop_wait tests its loop condition again after every wake-up: a
\* thread that finds the buffer empty and the queue not cancelled, on entry
\* or after a wake-up, goes (back) into _notifier.wait and changes nothing,
\* and a pop_wait that returns took the head of a non-empty buffer.
C16_RecheckAfterWake ==
  [][\A t \in Threads :
       (pc[t] \in {"pop_wait", "pop_wait_w"} /\ _mutex = t /\ _mutex' # t) =>
         /\ (_queue = <<>> /\ ~_cancel) =>
              /\ pc'[t] = "pop_wait_w"
              /\ t \in _notifier'
              /\ _queue' = _queue /\ taken' = taken /\ ret' = ret
         /\ pc'[t] = "idle" =>
              /\ _queue # <<>>
              /\ ret'.val = <<Head(_queue)>>
              /\ _queue' = Tail(_queue)]_vars

\* a thread woken out of pop_wait's _notifier.wait owns _mutex again and
\* finds the buffer empty, the message that was pushed in the meantime
\* taken by another consumer, and the queue not cancelled
C16_Witness ==
  /\ ~_cancel
  /\ _queue = <<>>
  /\ applied # <<>>
  /\ taken = applied
  /\ \E t \in Threads : pc[t] = "pop_wait_w" /\ _mutex = t

C18_NoStrandedConsumer ==
  ~ /\ ~_cancel
    /\ _queue # <<>>
    /\ \E c \in _notifier : pc[c] = "pop_wait_w"
    /\ \A u \in Threads : Outside(u) \/ u \in _notifier

\* C19: in every state reached through push, push( list ), try_pop,
\* pop_wait, pop_wait( list ) and cancel, every message ever spliced into
\* the queue is either in the buffer once or was handed out once, never
\* both and never neither, and nothing else is in the buffer or was handed
\* out; every removal hands the removed messages to the caller; size()
\* returns the number of messages pushed minus the number removed.
C19_Conservation ==
  /\ [](/\ \A x \in Range(applied) : Count(_queue, x) + Count(taken, x) = 1
        /\ Range(_queue) \cup Range(taken) \subseteq Range(applied)
        /\ Len(_queue) = Len(applied) - Len(taken))
  /\ [][/\ taken' # taken => (ret'.st = "ok" /\ taken' = taken \o ret'.val)
        /\ \A t \in Threads :
             (pc[t] = "size" /\ pc'[t] = "idle")
               => ret'.n = Len(applied) - Len(taken)]_vars

\* every message was pushed, all but one were taken, the queue was
\* cancelled and size() has returned 1
C19_Witness ==
  /\ _cancel
  /\ Len(applied) = MaxMsgs
  /\ Len(taken) = MaxMsgs - 1
  /\ ret.op = "size"
  /\ ret.n = 1

\* C20: a blocking pop that throws Canceled leaves the queue as it was:
\* none of the steps the thread takes in a blocking pop, other than a
\* successful return, changes the buffer, and the throwing step changes
\* neither buffer nor flag and writes nothing to the caller's message / list.
C20_CancelledPopNoEffect ==
  /\ [][\A t \in Threads :
          Throws(t) =>
            /\ _queue' = _queue /\ _cancel' = _cancel
            /\ taken' = taken /\ applied' = applied
            /\ ret'.st = "cancelled" /\ ret'.val = <<>>]_vars
  /\ [][\A t \in Threads :
          (/\ OwnStep(t)
           /\ pc[t] \in BlockingPcs \/ pc'[t] \in BlockingPcs
           /\ ~(pc[t] \in BlockingPcs /\ pc'[t] = "idle"))
            => (_queue' = _queue /\ taken' = taken)]_vars

\* pop_wait( list ) has thrown Canceled on a buffer of two or more
\* messages, which are still there
C20_Witness ==
  /\ ret.op = "pop_wait_list"
  /\ ret.st = "cancelled"
  /\ Len(_queue) >= 2
  /\ \E t \in Threads : pc[t] = "caught"
====
